---- MODULE Spec2Model ----
(***************************************************************************)
(* Model of the Twilio <-> Deepgram voice-agent bridge (src/server.py).    *)
(*                                                                         *)
(* One call session is modelled: one invocation of websocket_handler with  *)
(* its three loops (twilio_receiver, sts_sender, sts_receiver), together   *)
(* with voice_webhook_handler and the process-wide registries              *)
(* (active_sessions, inactive_clients, the messages handed to              *)
(* broadcast_to_dashboards).                                               *)
(*                                                                         *)
(* asyncio runs the coroutines cooperatively: the code between two         *)
(* suspension points is one atomic step, which is what one action is.      *)
(* `await queue.put(x)` on an unbounded asyncio.Queue never suspends, so   *)
(* the handling of one telephony frame is a single step.                   *)
(*                                                                         *)
(* Audio bytes are opaque to the program.  A byte is represented by its    *)
(* arrival offset on the telephony socket, and a byte string by the        *)
(* run-length encoding of its offsets: a sequence of intervals <<lo, hi>>  *)
(* (lo inclusive, hi exclusive) in which adjacent runs are merged.  Two    *)
(* byte strings are equal iff their encodings are equal.                   *)
(***************************************************************************)
EXTENDS Integers, Sequences, FiniteSets, TLC

(***************************************************************************)
(* Bounds of the model.                                                    *)
(***************************************************************************)
\* Spec: the whole session.
MaxBytes == 160
MaxCtl == 2
MaxAgentMsgs == 1
MaxWebhooks == 1
\* SpecSessions: the webhooks of two calls and one media-stream socket.
SessMaxWebhooks == 2
SessMaxCtl == 2
SessMaxBytes == 160
SessMaxMsgs == 1
\* SpecDash: the number of calls of broadcast_to_dashboards.
DashMaxBroadcasts == 2
\* SpecAgent: the session with more agent messages and fewer telephony frames.
AgentMaxMsgs == 3
AgentMaxCtl == 1
AgentMaxBytes == 3200
\* SpecBuf: the telephony loop alone, enough bytes for 25 frames of 160.
BufMaxBytes == 4000
BufMaxCtl == 2
\* SpecStore: consecutive calls over the store.
MaxCalls == 2
StoreMaxCtl == 1
StoreMaxMsgs == 1
\* SpecStream: repeated start frames with different stream ids.
StreamMaxCtl == 2
StreamMaxMsgs == 2
StreamMaxBytes == 6400
\* SpecText: one call with or without the store, the agent reporting turns.
TextMaxCtl == 1
TextMaxMsgs == 2
TextMaxBytes == 3200
\* SpecLifecycle: the process from its start to its shutdown, one call.
LifeMaxCtl == 1
LifeMaxMsgs == 1
LifeMaxBytes == 3200
LifeMaxWebhooks == 1
\* SpecDigest: the digest over stored histories of up to MaxHistory sessions.
MaxHistory == 4
DigestMaxCtl == 1

(***************************************************************************)
(* Values.                                                                 *)
(***************************************************************************)
\* A call id is a string; it is modelled as a sequence of characters
\* (numbers) because the code slices it (call_sid[-8:]).  Twilio call ids
\* have 34 characters; LongSid stands for any id longer than 8 characters,
\* ShortSid for one of at most 8 (such as the webhook's default 'unknown').
LongSid == <<1, 2, 3, 4, 5, 6, 7, 8, 9>>
ShortSid == <<7, 7>>
CallSids == {LongSid, ShortSid}
\* Python's None for call_sid (falsy, like the empty string).
NoSid == << >>

StreamSids == {"MZ1", "MZ2"}
Phones == {"+61400000001", "unknown"}
Absent == "absent"
None == "None"

\* BUFFER_SIZE = 20 * 160
BUFFER_SIZE == 20 * 160

(***************************************************************************)
(* Byte strings (bytearray / bytes).                                       *)
(***************************************************************************)
\* len(b)
BytesLen(b) ==
  LET RECURSIVE sum(_)
      sum(i) == IF i = 0 THEN 0 ELSE (b[i][2] - b[i][1]) + sum(i - 1)
  IN sum(Len(b))

\* inbuffer.extend(chunk): the bytes lo..hi-1 appended to b.
Extend(b, lo, hi) ==
  IF lo = hi THEN b
  ELSE IF b # << >> /\ b[Len(b)][2] = lo
       THEN [b EXCEPT ![Len(b)] = <<b[Len(b)][1], hi>>]
       ELSE Append(b, <<lo, hi>>)

\* b1 + b2
Concat(b1, b2) ==
  LET RECURSIVE cat(_, _)
      cat(acc, i) == IF i > Len(b2) THEN acc
                     ELSE cat(Extend(acc, b2[i][1], b2[i][2]), i + 1)
  IN cat(b1, 1)

\* b"".join(chunks)
Join(chunks) ==
  LET RECURSIVE join(_)
      join(i) == IF i = 0 THEN << >> ELSE Concat(join(i - 1), chunks[i])
  IN join(Len(chunks))

\* The first n bytes received on the telephony socket, in arrival order.
Arrived(n) == IF n = 0 THEN << >> ELSE << <<0, n>> >>

(***************************************************************************)
(* Python values of a stored transcript, and text.                         *)
(*                                                                         *)
(* Text is a sequence of characters.  A Python value is a record tagged by *)
(* its type in field t: "none", "int", "str" (field s: its text; field     *)
(* json: whether the text is a JSON document, and then field doc: the      *)
(* value json.loads returns for it), "list" (field items), "object" (a     *)
(* dict that is not a turn; field keys: its keys in order, field messages: *)
(* the value under "messages" or Missing) and "dict" (a turn; fields       *)
(* content and speaker, each of which may be Missing).                     *)
(***************************************************************************)
Missing == [t |-> "missing"]
PyNone == [t |-> "none"]
PyInt(digits) == [t |-> "int", repr |-> digits]
PyStr(chars) == [t |-> "str", s |-> chars, json |-> FALSE, doc |-> PyNone]
PyList(items) == [t |-> "list", items |-> items]
PyObject(keys, messages) == [t |-> "object", keys |-> keys, messages |-> messages]
Turn(speaker, content) == [t |-> "dict", content |-> content, speaker |-> speaker]

\* json.dumps(v): a text that json.loads decodes to v.
JsonDumps(v) == [t |-> "str", s |-> <<"j", "s", "o", "n">>, json |-> TRUE, doc |-> v]

\* str(item)
StrOf(item) ==
  CASE item.t = "str" -> item.s
    [] item.t = "int" -> item.repr
    [] OTHER -> <<"N", "o", "n", "e">>

\* content.strip()
Strip(s) ==
  LET RECURSIVE lstrip(_), rstrip(_)
      lstrip(x) == IF x # << >> /\ Head(x) = " " THEN lstrip(Tail(x)) ELSE x
      rstrip(x) == IF x # << >> /\ x[Len(x)] = " "
                   THEN rstrip(SubSeq(x, 1, Len(x) - 1)) ELSE x
  IN rstrip(lstrip(s))

\* content.startswith(prefix)
StartsWith(s, prefix) ==
  Len(s) >= Len(prefix) /\ SubSeq(s, 1, Len(prefix)) = prefix

\* ('Hello!', 'Hi!', 'Hey!', 'Yes,', 'Nice!', 'Got it!', 'Oh,', 'Okay!', 'Sure!')
Openers ==
  { <<"H", "e", "l", "l", "o", "!">>, <<"H", "i", "!">>, <<"H", "e", "y", "!">>,
    <<"Y", "e", "s", ",">>, <<"N", "i", "c", "e", "!">>,
    <<"G", "o", "t", " ", "i", "t", "!">>, <<"O", "h", ",">>,
    <<"O", "k", "a", "y", "!">>, <<"S", "u", "r", "e", "!">> }

\* s[:] (a slice that keeps everything)
LastNAll(s, n) == s

\* s[-n:]
LastN(s, n) == IF Len(s) <= n THEN s ELSE SubSeq(s, Len(s) - n + 1, Len(s))

(***************************************************************************)
(* format_actual_conversation_context.  The result is Raised when an       *)
(* exception leaves the function, and otherwise the entries of             *)
(* context_parts: the function returns "" when there is none, and the      *)
(* text block that joins them otherwise.                                   *)
(***************************************************************************)
\* STEP 1: a str is decoded with json.loads; a JSON object with "messages"
\* stands for its messages; a str that is not JSON becomes one user turn.
DecodeTranscript(transcript) ==
  IF transcript.t = "str"
  THEN IF transcript.json
       THEN LET decoded == transcript.doc
            IN IF decoded.t = "object" /\ decoded.messages.t # "missing"
               THEN decoded.messages
               ELSE decoded
       ELSE PyList(<< Turn("user", PyStr(transcript.s)) >>)
  ELSE transcript

\* `for item in transcript` succeeds on a list, a str (its characters) and a
\* dict (its keys), and raises TypeError on None and on a number.
Iterable(v) == v.t \in {"list", "str", "object"}
Items(v) ==
  CASE v.t = "list" -> v.items
    [] v.t = "str" -> [i \in 1..Len(v.s) |-> PyStr(<<v.s[i]>>)]
    [] v.t = "object" -> [i \in 1..Len(v.keys) |-> PyStr(v.keys[i])]

\* STEP 2: every item that is not a dict becomes a user turn of str(item).
Normalize(items) ==
  [i \in 1..Len(items) |->
     IF items[i].t \in {"dict", "object"} THEN items[i]
     ELSE Turn("user", PyStr(StrOf(items[i])))]

\* msg.get('content', '')
ContentOf(msg) ==
  IF msg.t = "object" \/ msg.content.t = "missing" THEN PyStr(<< >>) ELSE msg.content
\* msg.get('speaker', '')
SpeakerOf(msg) == IF msg.t = "object" THEN "" ELSE msg.speaker

\* .strip() exists on str only: None and numbers raise AttributeError.
ContentRaises(msg) == ContentOf(msg).t # "str"

\* len(content) > 15 and not content.startswith((...)), and speaker ==
\* 'user'.  (A filter that forgets the speaker.)
IsKeyExchangeAnySpeaker(msg) ==
  LET content == Strip(ContentOf(msg).s)
  IN /\ Len(content) > 15
     /\ \A p \in Openers : ~StartsWith(content, p)

\* len(content) > 15 and not content.startswith((...)), and speaker ==
\* 'user'.  The branch for speaker == 'ai' adds nothing.
IsKeyExchange(msg) ==
  LET content == Strip(ContentOf(msg).s)
  IN /\ Len(content) > 15
     /\ \A p \in Openers : ~StartsWith(content, p)
     /\ SpeakerOf(msg) = "user"

\* key_exchanges of one session
KeyExchanges(turns) ==
  LET RECURSIVE collect(_)
      collect(j) ==
        IF j = 0 THEN << >>
        ELSE IF IsKeyExchange(turns[j])
             THEN Append(collect(j - 1), Strip(ContentOf(turns[j]).s))
             ELSE collect(j - 1)
  IN collect(Len(turns))

\* The body of the loop over sessions raises.
SessionRaises(session_data) ==
  LET transcript == DecodeTranscript(session_data.full_transcript)
  IN \/ ~Iterable(transcript)
     \/ \E j \in DOMAIN Normalize(Items(transcript)) :
           ContentRaises(Normalize(Items(transcript))[j])

\* meaningful_exchanges = key_exchanges[-6:]
SessionSummary(session_data) ==
  LET transcript == Normalize(Items(DecodeTranscript(session_data.full_transcript)))
  IN [session_num |-> session_data.session_number,
      exchanges |-> LastN(KeyExchanges(transcript), 6)]

Raised == [raised |-> TRUE, parts |-> << >>]

format_actual_conversation_context(recent_sessions) ==
  LET last3 == LastN(recent_sessions, 3)   \* recent_sessions[-3:]
      RECURSIVE parts(_)
      parts(i) ==
        IF i = 0 THEN << >>
        ELSE LET summary == SessionSummary(last3[i])
             IN IF summary.exchanges # << >>
                THEN Append(parts(i - 1), summary)
                ELSE parts(i - 1)
  IN IF \E i \in DOMAIN last3 : SessionRaises(last3[i])
     THEN Raised
     ELSE [raised |-> FALSE, parts |-> parts(Len(last3))]

(***************************************************************************)
(* State.                                                                  *)
(***************************************************************************)
VARIABLES
  \* process-wide (server.py:15-20)
  shutdown_event,      \* asyncio.Event; no code under src/ calls its set()
  api_key,             \* os.getenv('DEEPGRAM_API_KEY') is set
  serving,             \* site.start() has returned: requests are accepted
  db,                  \* TRUE: the store is connected; FALSE: db is None
  active_sessions,     \* call_sid -> entry
  inactive_clients,    \* list of ended calls
  broadcasts,          \* the messages handed to broadcast_to_dashboards, in order
  human_guidance_queue, \* the keys of human_guidance_queue
  dashboard_connections, \* the dashboard sockets subscribed
  dashboard_closed,    \* the dashboard sockets whose handler has returned
  \* broadcast_to_dashboards (server.py:47-63)
  bc_pc,               \* "idle" | "loop" | "raised"
  bc_start,            \* dashboard_connections.copy()
  bc_todo,             \* the sockets of the copy not yet iterated
  bc_sent,             \* the sockets send_str returned for
  disconnected,
  bc_count,            \* how many broadcasts have started
  bc_added,            \* the sockets that connected during the latest broadcast
  \* the store behind db (database.py)
  callers,             \* phone_number -> total_calls, 0 when there is no row
  sessions,            \* the rows of table sessions, in order of start_time
  messages,            \* the rows of table messages, in order of timestamp
  store_calls,         \* <<call_no, method>> for every method of db called
  \* websocket_handler locals (server.py:938-946)
  audio_queue,         \* every chunk put on audio_queue, in order
  audio_taken,         \* how many of them sts_sender has taken
  streamsid_queue,
  session_id,
  caller_context,
  ai_prompt,
  identity,            \* caller_phone as read when the context is loaded
  caller_phone,
  call_sid,
  caller_info_ready,
  \* twilio_receiver
  inbuffer,
  twilio_pc,           \* "loop" | "done"
  ws_open,             \* the telephony socket accepts sends
  \* handler body and agent connection
  main_pc,             \* "wait_caller_info" | "load_context" | "connect" | "gather" | "fallback" | "done"
  sts_open,            \* the agent connection is open
  sts_sent,            \* the messages sent to the agent, in order
  sender_pc,           \* "idle" | "check" | "get" | "done"
  receiver_pc,         \* "idle" | "wait_streamsid" | "loop" | "add_message" | "done"
  streamsid,           \* sts_receiver's local
  twilio_out,          \* the frames sent on the telephony socket, in order
  \* history
  frame_count,         \* how many telephony frames of each kind were received
  bad_at,              \* rx_bytes when the latest frame that is not valid JSON arrived, or -1
  media_sizes,         \* the payload sizes of the media frames received
  rx_bytes,            \* number of media payload bytes decoded so far
  agent_log,           \* the agent messages received by sts_receiver, in order
  call_no,             \* which invocation of websocket_handler this is
  digest               \* what format_actual_conversation_context returned, if called

dash_vars == <<dashboard_connections, dashboard_closed, bc_pc, bc_start, bc_todo,
               bc_sent, disconnected, bc_count, bc_added>>

vars == <<shutdown_event, api_key, dash_vars, serving, db, active_sessions, inactive_clients, broadcasts,
          human_guidance_queue, callers, sessions, messages, store_calls,
          caller_context, ai_prompt, identity, call_no, digest,
          audio_queue, audio_taken, streamsid_queue, session_id, caller_phone,
          call_sid, caller_info_ready, inbuffer, twilio_pc, ws_open, main_pc,
          sts_open, sts_sent, sender_pc, receiver_pc, streamsid, twilio_out,
          frame_count, bad_at, media_sizes, rx_bytes, agent_log>>

store_vars == <<human_guidance_queue, callers, sessions, messages, store_calls>>
globals == <<shutdown_event, api_key, dash_vars, serving, db, active_sessions, inactive_clients, broadcasts,
             store_vars>>
twilio_vars == <<audio_queue, streamsid_queue, caller_phone, call_sid,
                 caller_info_ready, inbuffer, twilio_pc, ws_open, frame_count,
                 bad_at, media_sizes, rx_bytes>>
handler_locals == <<session_id, caller_context, ai_prompt, identity, call_no, digest>>
main_vars == <<handler_locals, main_pc>>
sts_vars == <<audio_taken, sts_open, sts_sent, sender_pc, receiver_pc,
              streamsid, twilio_out, agent_log>>

\* An entry of active_sessions; NoEntry stands for a missing key.
NoEntry == [caller_phone |-> Absent, status |-> Absent]
Has(table, c) == table[c] # NoEntry

FrameKinds == {"start", "media", "stop", "badjson", "skipped", "close"}
\* The number of frames received that are not media frames.
CtlCount == frame_count["start"] + frame_count["stop"] + frame_count["badjson"]
            + frame_count["skipped"] + frame_count["close"]
\* A frame of this kind, with a payload of n bytes, is read from the socket.
Reads(kind, n) ==
  /\ frame_count' = [frame_count EXCEPT ![kind] = @ + 1]
  /\ bad_at' = IF kind = "badjson" THEN rx_bytes ELSE bad_at
  /\ media_sizes' = IF kind = "media" THEN media_sizes \cup {n} ELSE media_sizes

\* The instructions of the agent: VOICE_AGENT_PERSONALITY, followed by the
\* conversation history when there is one and by the human guidance when
\* there is one.
BasePrompt == [base |-> "VOICE_AGENT_PERSONALITY", context |-> << >>, guidance |-> FALSE]

\* digest before format_actual_conversation_context is called.
NotCalled == [called |-> FALSE, raised |-> FALSE, parts |-> << >>]

\* The module globals when the module is loaded (server.py:15-20).
InitModule ==
  /\ shutdown_event = FALSE
  /\ active_sessions = [c \in CallSids |-> NoEntry]
  /\ inactive_clients = << >>
  /\ broadcasts = << >>
  /\ human_guidance_queue = {}
  /\ dashboard_connections = {}
  /\ dashboard_closed = {}
  /\ bc_pc = "idle"
  /\ bc_start = {}
  /\ bc_todo = {}
  /\ bc_sent = {}
  /\ disconnected = {}
  /\ bc_count = 0
  /\ bc_added = {}
  /\ store_calls = {}
  /\ call_no = 1

\* The process-wide state when the server is serving (server.py:15-20,
\* after run_server has started the site), the agent credential configured.
InitGlobals ==
  /\ InitModule
  /\ api_key = TRUE
  /\ serving = TRUE
  /\ db \in BOOLEAN

\* The state of one invocation of websocket_handler when twilio_task is
\* created (server.py:933-1057).
InitCall ==
  /\ audio_queue = << >>
  /\ audio_taken = 0
  /\ streamsid_queue = << >>
  /\ session_id = None
  /\ caller_context = << >>
  /\ ai_prompt = BasePrompt
  /\ identity = None
  /\ caller_phone = None
  /\ call_sid = NoSid
  /\ caller_info_ready = FALSE
  /\ inbuffer = << >>
  /\ twilio_pc = "loop"
  /\ ws_open = TRUE
  /\ main_pc = "wait_caller_info"
  /\ sts_open = FALSE
  /\ sts_sent = << >>
  /\ sender_pc = "idle"
  /\ receiver_pc = "idle"
  /\ streamsid = None
  /\ twilio_out = << >>
  /\ frame_count = [k \in FrameKinds |-> 0]
  /\ bad_at = -1
  /\ media_sizes = {}
  /\ rx_bytes = 0
  /\ agent_log = << >>
  /\ digest = NotCalled

\* A store without rows.
EmptyStore ==
  /\ callers = [p \in Phones |-> 0]
  /\ sessions = << >>
  /\ messages = << >>

Init == InitGlobals /\ InitCall /\ EmptyStore

(***************************************************************************)
(* Session finalization: the block that moves the call to inactive_clients *)
(* appears twice in the source, in the stop branch of twilio_receiver and  *)
(* as the fallback after asyncio.gather.                                   *)
(***************************************************************************)
\* call_sid[-8:]
Last8(c) == IF Len(c) <= 8 THEN c ELSE SubSeq(c, Len(c) - 7, Len(c))

\* phone = caller_phone or session_info.get('caller_phone') or "Unknown"
PhoneOf(c) ==
  IF caller_phone # None THEN caller_phone
  ELSE IF Has(active_sessions, c) THEN active_sessions[c].caller_phone
  ELSE "Unknown"

\* MoveToInactive with active_sessions.clear() in place of
\* del active_sessions[call_sid].
MoveToInactiveClear(c) ==
  /\ inactive_clients' = Append(inactive_clients, [id |-> Last8(c), name |-> PhoneOf(c)])
  /\ active_sessions' = [d \in CallSids |-> NoEntry]
  /\ broadcasts' = broadcasts \o << [type |-> "call_ended", call_sid |-> c],
                                    [type |-> "inactive_clients", call_sid |-> NoSid] >>

\* inactive_clients.append({...}); del active_sessions[call_sid];
\* broadcast call_ended; broadcast inactive_clients
MoveToInactive(c) ==
  /\ inactive_clients' = Append(inactive_clients, [id |-> Last8(c), name |-> PhoneOf(c)])
  /\ active_sessions' = [active_sessions EXCEPT ![c] = NoEntry]
  /\ broadcasts' = broadcasts \o << [type |-> "call_ended", call_sid |-> c],
                                    [type |-> "inactive_clients", call_sid |-> NoSid] >>

(***************************************************************************)
(* voice_webhook_handler                                                   *)
(***************************************************************************)
NumWebhooks == Cardinality({i \in DOMAIN broadcasts : broadcasts[i].type = "call_started"})

voice_webhook_handler(c, phone, maxWebhooks) ==
  /\ NumWebhooks < maxWebhooks
  /\ active_sessions' = [active_sessions EXCEPT ![c] = [caller_phone |-> phone, status |-> "connecting"]]
  /\ broadcasts' = Append(broadcasts, [type |-> "call_started", call_sid |-> c])
  /\ UNCHANGED <<shutdown_event, api_key, dash_vars, serving, db, inactive_clients, store_vars>>
  /\ UNCHANGED <<twilio_vars, main_vars, sts_vars>>

(***************************************************************************)
(* twilio_receiver: one action per kind of message read from the telephony *)
(* socket.  maxCtl and maxBytes bound the run.                             *)
(***************************************************************************)
\* The loop is reading and the bound on non-media frames is not reached.
TwilioReads(maxCtl) == twilio_pc = "loop" /\ CtlCount < maxCtl

\* if shutdown_event.is_set(): break
TwilioBreak ==
  /\ twilio_pc' = "done"
  /\ UNCHANGED <<audio_queue, streamsid_queue, caller_phone, call_sid,
                 caller_info_ready, inbuffer, ws_open, rx_bytes>>
  /\ UNCHANGED <<globals, main_vars, sts_vars>>

\* customParameters of a start frame: NoParams (missing or empty, falsy), or
\* the two parameters of the TwiML, each of which may be missing; the TwiML
\* of voice_webhook_handler gives callsid the call's own id.
NoParams == [caller |-> "-", callsid |-> NoSid]
StartParams(actual_call_sid) ==
  {NoParams} \cup [caller : Phones \cup {Absent}, callsid : {actual_call_sid, NoSid}]

\* data["event"] == "start"
twilio_receiver_start(sid, actual_call_sid, custom_params, maxCtl) ==
  /\ TwilioReads(maxCtl)
  /\ Reads("start", 0)
  /\ IF shutdown_event THEN TwilioBreak
     ELSE
       /\ IF custom_params # NoParams
          THEN LET c == IF custom_params.callsid = NoSid THEN actual_call_sid
                        ELSE custom_params.callsid
               IN /\ caller_phone' = (IF custom_params.caller = Absent THEN "unknown"
                                      ELSE custom_params.caller)
                  /\ call_sid' = c
                  /\ caller_info_ready' = TRUE
                  /\ active_sessions' =
                       IF Has(active_sessions, c)
                       THEN [active_sessions EXCEPT ![c].status = "active"]
                       ELSE active_sessions
          ELSE UNCHANGED <<caller_phone, call_sid, caller_info_ready, active_sessions>>
       /\ streamsid_queue' = Append(streamsid_queue, sid)
       /\ UNCHANGED <<audio_queue, inbuffer, twilio_pc, ws_open, rx_bytes>>
       /\ UNCHANGED <<shutdown_event, api_key, dash_vars, serving, db, inactive_clients, broadcasts, store_vars>>
       /\ UNCHANGED <<main_vars, sts_vars>>

\* if len(inbuffer) >= BUFFER_SIZE:   (a buffer that is never flushed)
BufferNever(buf) == FALSE

\* if len(inbuffer) >= BUFFER_SIZE:   (a flush that tests > instead of >=)
BufferFullStrict(buf) == BytesLen(buf) > BUFFER_SIZE

\* if len(inbuffer) >= BUFFER_SIZE:
BufferFull(buf) == BytesLen(buf) >= BUFFER_SIZE

\* data["event"] == "media": a payload that decodes to n bytes
twilio_receiver_media(n, maxBytes) ==
  /\ twilio_pc = "loop"
  /\ rx_bytes + n <= maxBytes
  /\ Reads("media", n)
  /\ IF shutdown_event THEN TwilioBreak
     ELSE
       LET buf == Extend(inbuffer, rx_bytes, rx_bytes + n)
       IN /\ rx_bytes' = rx_bytes + n
          /\ IF BufferFull(buf)
             THEN /\ audio_queue' = Append(audio_queue, buf)
                  /\ inbuffer' = << >>
             ELSE /\ inbuffer' = buf
                  /\ UNCHANGED audio_queue
          /\ UNCHANGED <<streamsid_queue, caller_phone, call_sid,
                         caller_info_ready, twilio_pc, ws_open>>
          /\ UNCHANGED <<globals, main_vars, sts_vars>>

\* data["event"] == "stop"
twilio_receiver_stop(maxCtl) ==
  /\ TwilioReads(maxCtl)
  /\ Reads("stop", 0)
  /\ IF shutdown_event THEN TwilioBreak
     ELSE
       /\ audio_queue' = IF inbuffer # << >> THEN Append(audio_queue, inbuffer)
                         ELSE audio_queue
       /\ IF call_sid # NoSid
          THEN MoveToInactive(call_sid)
          ELSE UNCHANGED <<active_sessions, inactive_clients, broadcasts>>
       /\ UNCHANGED <<streamsid_queue, caller_phone, call_sid, caller_info_ready,
                      inbuffer, twilio_pc, ws_open, rx_bytes>>
       /\ UNCHANGED <<shutdown_event, api_key, dash_vars, serving, db, store_vars, main_vars, sts_vars>>

\* A text frame that is not valid JSON, with the JSONDecodeError caught
\* outside the loop instead of inside it: the loop ends.
twilio_receiver_malformed_ends(maxCtl) ==
  /\ TwilioReads(maxCtl)
  /\ Reads("badjson", 0)
  /\ TwilioBreak

\* A text frame that is not valid JSON: json.loads raises JSONDecodeError,
\* which is caught and printed.
twilio_receiver_malformed(maxCtl) ==
  /\ TwilioReads(maxCtl)
  /\ Reads("badjson", 0)
  /\ IF shutdown_event THEN TwilioBreak
     ELSE /\ UNCHANGED <<audio_queue, streamsid_queue, caller_phone, call_sid,
                         caller_info_ready, inbuffer, twilio_pc, ws_open, rx_bytes>>
          /\ UNCHANGED <<globals, main_vars, sts_vars>>

\* Frames that no branch handles or whose handling raises before any
\* assignment (caught by `except Exception`): "connected", an unknown
\* event, a frame without "event", a start frame without streamSid or
\* callSid, a media frame whose payload is missing or is not base64, and a
\* binary message.
SkippedKinds == {"connected", "no_event", "bad_start", "bad_media", "binary"}

twilio_receiver_skipped(kind, maxCtl) ==
  /\ TwilioReads(maxCtl)
  /\ Reads("skipped", 0)
  /\ IF shutdown_event THEN TwilioBreak
     ELSE /\ UNCHANGED <<audio_queue, streamsid_queue, caller_phone, call_sid,
                         caller_info_ready, inbuffer, twilio_pc, ws_open, rx_bytes>>
          /\ UNCHANGED <<globals, main_vars, sts_vars>>

\* The socket closes (the async for ends) or reports an error (break).  No
\* code follows the loop.
twilio_receiver_close(kind) ==
  /\ twilio_pc = "loop"
  /\ Reads("close", 0)
  /\ twilio_pc' = "done"
  /\ ws_open' = FALSE
  /\ UNCHANGED <<audio_queue, streamsid_queue, caller_phone, call_sid,
                 caller_info_ready, inbuffer, rx_bytes>>
  /\ UNCHANGED <<globals, main_vars, sts_vars>>


(***************************************************************************)
(* websocket_handler: the body of the handler after twilio_task is created.*)
(***************************************************************************)
\* The handler going on without waiting for caller_info_ready.
websocket_handler_nowait ==
  /\ main_pc = "wait_caller_info"
  /\ main_pc' = "load_context"
  /\ UNCHANGED handler_locals
  /\ UNCHANGED <<globals, twilio_vars, sts_vars>>

\* await caller_info_ready.wait()
websocket_handler_wait ==
  /\ main_pc = "wait_caller_info"
  /\ caller_info_ready
  /\ main_pc' = "load_context"
  /\ UNCHANGED handler_locals
  /\ UNCHANGED <<globals, twilio_vars, sts_vars>>

\* The session ids the store generates (gen_random_uuid), in order.
UUIDs == <<"S1", "S2", "S3", "S4", "S5", "S6", "S7", "S8", "S9", "S10">>

\* call_sid or "websocket-call"
WebsocketCall == <<0>>

\* LIMIT 20
LIMIT == 20

\* INSERT INTO callers ... ON CONFLICT (phone_number) DO UPDATE SET
\* total_calls = callers.total_calls + 1
UpsertCaller(phone) ==
  [callers EXCEPT ![phone] = IF @ = 0 THEN 1 ELSE @ + 1]

\* phone_number VARCHAR(20) PRIMARY KEY: the INSERT INTO callers raises on
\* a phone number that is None.
PhoneAccepted(phone) == phone \in DOMAIN callers

\* twilio_call_sid is UNIQUE: the INSERT INTO sessions raises when a row
\* has the same call id.
SidTaken(sid) == \E i \in DOMAIN sessions : sessions[i].twilio_call_sid = sid

\* INSERT INTO sessions (caller_phone, twilio_call_sid, session_number):
\* end_time and full_transcript are NULL.
NewSession(id, phone, sid, number) ==
  [session_id |-> id, caller_phone |-> phone, twilio_call_sid |-> sid,
   session_number |-> number, ended |-> FALSE, full_transcript |-> PyNone]

\* load_conversation_context: SELECT ... WHERE caller_phone = $1 AND
\* end_time IS NOT NULL ORDER BY start_time DESC LIMIT 20
load_conversation_context(table, phone) ==
  LET RECURSIVE newest_first(_)
      newest_first(i) ==
        IF i = 0 THEN << >>
        ELSE IF table[i].caller_phone = phone /\ table[i].ended
             THEN <<table[i]>> \o newest_first(i - 1)
             ELSE newest_first(i - 1)
      rows == newest_first(Len(table))
  IN IF Len(rows) <= LIMIT THEN rows ELSE SubSeq(rows, 1, LIMIT)

\* if db and caller_phone != 'unknown' (a guard that forgets the caller)
UsesStoreAlways(phone) == db

\* if db and caller_phone != 'unknown':
UsesStore(phone) == db /\ phone # "unknown"

\* session_id in human_guidance_queue (a session id that is the str)
GuidanceKeyStr(id) == <<"str", id>>

\* session_id in human_guidance_queue: session_id is the uuid.UUID that
\* asyncpg returns, which equals no str.
GuidanceKey(id) == <<"uuid", id>>

\* An exception of get_or_create_caller that leaves the handler.
LoadContextRaises(failed) == IF failed THEN "done" ELSE "connect"

\* except Exception as e: print(f"Error loading caller context: {e}"): the
\* handler goes on to the agent connection whether the store raised or not.
LoadContextExcept(failed) == "connect"

\* if db and caller_phone != 'unknown': get_or_create_caller, then
\* format_actual_conversation_context when there are recent sessions; any
\* exception is printed and the handler goes on.  The store raises before
\* it wrote anything (~ok) or, after the caller row is written, on a call
\* id that already has a session.  Then the human guidance queued under
\* session_id, a uuid.UUID, is appended; the keys of human_guidance_queue
\* are values of the dashboard's JSON.
websocket_handler_load_context(ok) ==
  /\ main_pc = "load_context"
  /\ LET uses_store == UsesStore(caller_phone)
         sid == IF call_sid = NoSid THEN WebsocketCall ELSE call_sid
         upserted == uses_store /\ ok /\ PhoneAccepted(caller_phone)
         inserted == upserted /\ ~SidTaken(sid)
         number == UpsertCaller(caller_phone)[caller_phone]
         table == IF inserted
                  THEN Append(sessions, NewSession(UUIDs[Len(sessions) + 1],
                                                   caller_phone, sid, number))
                  ELSE sessions
         new_id == IF inserted THEN UUIDs[Len(table)] ELSE None
         recent == IF inserted THEN load_conversation_context(table, caller_phone)
                   ELSE << >>
         result == format_actual_conversation_context(recent)
         context == IF recent # << >> /\ ~result.raised THEN result.parts ELSE << >>
         guided == new_id # None /\ GuidanceKey(new_id) \in human_guidance_queue
     IN /\ store_calls' = IF uses_store
                          THEN store_calls \cup {<<call_no, "get_or_create_caller">>}
                          ELSE store_calls
        /\ callers' = IF upserted THEN UpsertCaller(caller_phone) ELSE callers
        /\ sessions' = table
        /\ session_id' = new_id
        /\ caller_context' = recent
        /\ identity' = caller_phone
        /\ digest' = IF recent # << >>
                     THEN [called |-> TRUE, raised |-> result.raised, parts |-> result.parts]
                     ELSE digest
        /\ ai_prompt' = [base |-> "VOICE_AGENT_PERSONALITY", context |-> context,
                         guidance |-> guided]
        /\ human_guidance_queue' = IF guided
                                   THEN human_guidance_queue \ {GuidanceKey(new_id)}
                                   ELSE human_guidance_queue
        /\ main_pc' = LoadContextExcept(uses_store /\ ~inserted)
  /\ UNCHANGED <<shutdown_event, api_key, dash_vars, serving, db, active_sessions, inactive_clients, broadcasts,
                 messages, call_no>>
  /\ UNCHANGED <<twilio_vars, sts_vars>>

\* The handler starting sts_sender and sts_receiver on a connection on
\* which it sent no Settings message.
websocket_handler_connect_unconfigured(ok) ==
  /\ main_pc = "connect"
  /\ IF ok /\ api_key
     THEN /\ sts_open' = TRUE
          /\ sts_sent' = << >>
          /\ sender_pc' = "check"
          /\ receiver_pc' = "wait_streamsid"
          /\ main_pc' = "gather"
     ELSE /\ main_pc' = "done"
          /\ UNCHANGED <<sts_open, sts_sent, sender_pc, receiver_pc>>
  /\ UNCHANGED <<handler_locals, audio_taken, streamsid, twilio_out, agent_log>>
  /\ UNCHANGED <<globals, twilio_vars>>

\* async with sts_connect() as sts_ws: await sts_ws.send(config_message),
\* then asyncio.gather starts sts_sender and sts_receiver.  When the
\* connection or the send fails, or sts_connect raises ValueError because
\* DEEPGRAM_API_KEY is not set, the exception leaves the handler through
\* its outer except; twilio_task is not cancelled.
websocket_handler_connect(ok) ==
  /\ main_pc = "connect"
  /\ IF ok /\ api_key
     THEN /\ sts_open' = TRUE
          /\ sts_sent' = << [type |-> "Settings", bytes |-> << >>, prompt |-> ai_prompt] >>
          /\ sender_pc' = "check"
          /\ receiver_pc' = "wait_streamsid"
          /\ main_pc' = "gather"
     ELSE /\ main_pc' = "done"
          /\ UNCHANGED <<sts_open, sts_sent, sender_pc, receiver_pc>>
  /\ UNCHANGED <<handler_locals, audio_taken, streamsid, twilio_out, agent_log>>
  /\ UNCHANGED <<globals, twilio_vars>>

\* already_inactive = any(c.get('id') == call_sid for c in inactive_clients)
already_inactive ==
  \E i \in DOMAIN inactive_clients : inactive_clients[i].id = call_sid

\* asyncio.gather returns when the three loops have ended; then the
\* fallback block runs and the async with closes the agent connection.
websocket_handler_fallback ==
  /\ main_pc = "gather"
  /\ sender_pc = "done" /\ receiver_pc = "done" /\ twilio_pc = "done"
  /\ IF call_sid # NoSid /\ ~already_inactive
     THEN MoveToInactive(call_sid)
     ELSE UNCHANGED <<active_sessions, inactive_clients, broadcasts>>
  /\ sts_open' = FALSE
  /\ main_pc' = "done"
  /\ UNCHANGED <<shutdown_event, api_key, dash_vars, serving, db, store_vars, handler_locals>>
  /\ UNCHANGED <<audio_taken, sts_sent, sender_pc, receiver_pc, streamsid,
                 twilio_out, agent_log>>
  /\ UNCHANGED twilio_vars

(***************************************************************************)
(* sts_sender                                                              *)
(***************************************************************************)
\* while not shutdown_event.is_set():
sts_sender_check ==
  /\ sender_pc = "check"
  /\ sender_pc' = IF shutdown_event THEN "done" ELSE "get"
  /\ UNCHANGED <<audio_taken, sts_open, sts_sent, receiver_pc, streamsid,
                 twilio_out, agent_log>>
  /\ UNCHANGED <<globals, twilio_vars, main_vars>>

\* sts_sender taking the chunk put on audio_queue last instead of the one
\* put first.
sts_sender_send_newest ==
  /\ sender_pc = "get"
  /\ audio_taken < Len(audio_queue)
  /\ audio_taken' = audio_taken + 1
  /\ IF sts_open
     THEN /\ sts_sent' = Append(sts_sent, [type |-> "audio",
                                           bytes |-> audio_queue[Len(audio_queue)]])
          /\ sender_pc' = "check"
     ELSE /\ sender_pc' = "done"
          /\ UNCHANGED sts_sent
  /\ UNCHANGED <<sts_open, receiver_pc, streamsid, twilio_out, agent_log>>
  /\ UNCHANGED <<globals, twilio_vars, main_vars>>

\* chunk = await asyncio.wait_for(audio_queue.get(), timeout=1.0);
\* await sts_ws.send(chunk).  Sending on a closed connection raises, which
\* ends the loop.
sts_sender_send ==
  /\ sender_pc = "get"
  /\ audio_taken < Len(audio_queue)
  /\ audio_taken' = audio_taken + 1
  /\ IF sts_open
     THEN /\ sts_sent' = Append(sts_sent, [type |-> "audio", bytes |-> audio_queue[audio_taken + 1]])
          /\ sender_pc' = "check"
     ELSE /\ sender_pc' = "done"
          /\ UNCHANGED sts_sent
  /\ UNCHANGED <<sts_open, receiver_pc, streamsid, twilio_out, agent_log>>
  /\ UNCHANGED <<globals, twilio_vars, main_vars>>

\* except asyncio.TimeoutError: continue
sts_sender_timeout ==
  /\ sender_pc = "get"
  /\ audio_taken = Len(audio_queue)
  /\ sender_pc' = "check"
  /\ UNCHANGED <<audio_taken, sts_open, sts_sent, receiver_pc, streamsid,
                 twilio_out, agent_log>>
  /\ UNCHANGED <<globals, twilio_vars, main_vars>>

(***************************************************************************)
(* sts_receiver                                                            *)
(***************************************************************************)
\* sts_receiver entering its loop without first obtaining the stream id.
sts_receiver_no_streamsid ==
  /\ receiver_pc = "wait_streamsid"
  /\ receiver_pc' = "loop"
  /\ UNCHANGED <<streamsid, streamsid_queue>>
  /\ UNCHANGED <<audio_taken, sts_open, sts_sent, sender_pc, twilio_out, agent_log>>
  /\ UNCHANGED <<audio_queue, caller_phone, call_sid, caller_info_ready,
                 inbuffer, twilio_pc, ws_open, frame_count, bad_at,
                 media_sizes, rx_bytes>>
  /\ UNCHANGED <<globals, main_vars>>

\* streamsid = await streamsid_queue.get()
sts_receiver_streamsid ==
  /\ receiver_pc = "wait_streamsid"
  /\ streamsid_queue # << >>
  /\ streamsid' = Head(streamsid_queue)
  /\ streamsid_queue' = Tail(streamsid_queue)
  /\ receiver_pc' = "loop"
  /\ UNCHANGED <<audio_taken, sts_open, sts_sent, sender_pc, twilio_out, agent_log>>
  /\ UNCHANGED <<audio_queue, caller_phone, call_sid, caller_info_ready,
                 inbuffer, twilio_pc, ws_open, frame_count, bad_at,
                 media_sizes, rx_bytes>>
  /\ UNCHANGED <<globals, main_vars>>

\* The kinds of message the agent endpoint sends: binary audio, and text
\* that is a JSON object with a type, is not valid JSON ("badjson"), or is
\* valid JSON without a usable type ("notype": decoded['type'] or
\* decoded.get raises something other than JSONDecodeError).
AgentKinds == {"audio", "UserStartedSpeaking", "ConversationText",
               "OtherControl", "badjson", "notype"}

\* Sending that drops the barge-in: no clear frame is sent.
SendToTwilioNoClear(event) ==
  IF ws_open /\ event # "clear"
  THEN /\ twilio_out' = Append(twilio_out, [event |-> event, streamSid |-> streamsid,
                                            src |-> Len(agent_log) + 1])
       /\ receiver_pc' = "loop"
  ELSE /\ receiver_pc' = IF ws_open THEN "loop" ELSE "done"
       /\ UNCHANGED twilio_out

\* Sending that addresses the frame to the stream id of the latest start
\* frame instead of the one sts_receiver took.
SendToTwilioLatest(event) ==
  IF ws_open
  THEN /\ twilio_out' = Append(twilio_out,
                               [event |-> event,
                                streamSid |-> IF streamsid_queue # << >>
                                              THEN streamsid_queue[Len(streamsid_queue)]
                                              ELSE streamsid,
                                src |-> Len(agent_log) + 1])
       /\ receiver_pc' = "loop"
  ELSE /\ receiver_pc' = "done"
       /\ UNCHANGED twilio_out

\* await ws.send_str(json.dumps(frame)): raises when the telephony socket
\* is closed, and the exception ends sts_receiver.
SendToTwilio(event) ==
  IF ws_open
  THEN /\ twilio_out' = Append(twilio_out, [event |-> event, streamSid |-> streamsid,
                                            src |-> Len(agent_log) + 1])
       /\ receiver_pc' = "loop"
  ELSE /\ receiver_pc' = "done"
       /\ UNCHANGED twilio_out

\* The ConversationText messages of the agent, by the role they carry:
\* "ConversationText" has the role 'user', the other two the roles
\* 'assistant' and 'system'.  Each has a content.
TextKinds == {"ConversationText", "ConversationText assistant", "ConversationText system"}

\* role = decoded.get('role')
RoleOf(kind) ==
  CASE kind = "ConversationText assistant" -> "assistant"
    [] kind = "ConversationText system" -> "system"
    [] OTHER -> "user"

\* speaker VARCHAR(10) CHECK (speaker IN ('user', 'ai'))
SpeakerCheck(speaker) == speaker \in {"user", "ai"}

\* await db.add_message(session_id, db_role, content, decoded): the row is
\* inserted (stored), or the store raises and the except prints; it raises
\* on a speaker that the CHECK constraint of table messages rejects.
add_message(id, speaker, stored) ==
  /\ store_calls' = store_calls \cup {<<call_no, "add_message">>,
                                       <<call_no, "add_message", speaker>>}
  /\ messages' = IF stored /\ SpeakerCheck(speaker)
                 THEN Append(messages, [session_id |-> id, speaker |-> speaker])
                 ELSE messages

\* db_role = 'ai' if role == 'assistant' else role
db_role(role) == IF role = "assistant" THEN "ai" ELSE role

\* A failure of db.add_message that leaves the loop instead of being
\* printed.
StoreConversationTextRaising(role, stored) ==
  /\ add_message(session_id, db_role(role), stored)
  /\ broadcasts' = IF stored
                   THEN Append(broadcasts, [type |-> "transcript_update",
                                            call_sid |-> call_sid,
                                            role |-> db_role(role)])
                   ELSE broadcasts
  /\ receiver_pc' = IF stored THEN "loop" ELSE "done"

\* if role and content: try: await db.add_message(...) except Exception:
\* print; then try: await broadcast_to_dashboards({'type':
\* 'transcript_update', ...}) except Exception: print
StoreConversationText(role, stored) ==
  /\ add_message(session_id, db_role(role), stored)
  /\ broadcasts' = Append(broadcasts, [type |-> "transcript_update",
                                       call_sid |-> call_sid,
                                       role |-> db_role(role)])
  /\ receiver_pc' = "loop"

\* One iteration of `async for message in sts_ws`, up to its first await
\* that suspends.  A ConversationText message carries a role and a content.
sts_receiver_message(kind, maxAgentMsgs) ==
  /\ receiver_pc = "loop"
  /\ sts_open
  /\ Len(agent_log) < maxAgentMsgs
  /\ agent_log' = Append(agent_log, kind)
  /\ IF shutdown_event
     THEN /\ receiver_pc' = "done"
          /\ UNCHANGED <<twilio_out, broadcasts, messages, store_calls>>
     ELSE CASE kind = "audio" ->
                 /\ SendToTwilio("media")
                 /\ UNCHANGED <<broadcasts, messages, store_calls>>
            [] kind = "UserStartedSpeaking" ->
                 /\ SendToTwilio("clear")
                 /\ UNCHANGED <<broadcasts, messages, store_calls>>
            [] kind \in TextKinds ->
                 /\ receiver_pc' = IF session_id # None /\ db THEN "add_message"
                                   ELSE "loop"
                 /\ UNCHANGED <<twilio_out, broadcasts, messages, store_calls>>
            [] kind = "notype" ->
                 /\ receiver_pc' = "done"
                 /\ UNCHANGED <<twilio_out, broadcasts, messages, store_calls>>
            [] OTHER ->
                 UNCHANGED <<receiver_pc, twilio_out, broadcasts, messages, store_calls>>
  /\ UNCHANGED <<audio_taken, sts_open, sts_sent, sender_pc, streamsid>>
  /\ UNCHANGED <<shutdown_event, api_key, dash_vars, serving, db, active_sessions,
                 inactive_clients, human_guidance_queue, callers, sessions>>
  /\ UNCHANGED <<twilio_vars, main_vars>>

\* await db.add_message(...) returns or raises, and the turn is handed to
\* broadcast_to_dashboards; until then sts_receiver reads no message.
sts_receiver_add_message(stored) ==
  /\ receiver_pc = "add_message"
  /\ StoreConversationText(RoleOf(agent_log[Len(agent_log)]), stored)
  /\ UNCHANGED <<audio_taken, sts_open, sts_sent, sender_pc, streamsid,
                 twilio_out, agent_log>>
  /\ UNCHANGED <<shutdown_event, api_key, dash_vars, serving, db, active_sessions,
                 inactive_clients, human_guidance_queue, callers, sessions>>
  /\ UNCHANGED <<twilio_vars, main_vars>>

\* The agent connection is closed: the async for ends (or raises
\* ConnectionClosed, which the except prints).
sts_receiver_closed ==
  /\ receiver_pc = "loop"
  /\ ~sts_open
  /\ receiver_pc' = "done"
  /\ UNCHANGED <<audio_taken, sts_open, sts_sent, sender_pc, streamsid,
                 twilio_out, agent_log>>
  /\ UNCHANGED <<globals, twilio_vars, main_vars>>

\* The agent endpoint closes its connection.
agent_close ==
  /\ main_pc = "gather"
  /\ sts_open
  /\ sts_open' = FALSE
  /\ UNCHANGED <<audio_taken, sts_sent, sender_pc, receiver_pc, streamsid,
                 twilio_out, agent_log>>
  /\ UNCHANGED <<globals, twilio_vars, main_vars>>

(***************************************************************************)
(* The next call and the dashboard.                                        *)
(***************************************************************************)
\* The telephony side opens the socket of the next call once the caller of
\* this one has gone: a new invocation of websocket_handler with fresh
\* locals.  The tasks the previous invocation left behind are not followed
\* any further.
websocket_handler_next_call(maxCalls) ==
  /\ twilio_pc = "done"
  /\ call_no < maxCalls
  /\ call_no' = call_no + 1
  /\ audio_queue' = << >>
  /\ audio_taken' = 0
  /\ streamsid_queue' = << >>
  /\ session_id' = None
  /\ caller_context' = << >>
  /\ ai_prompt' = BasePrompt
  /\ identity' = None
  /\ caller_phone' = None
  /\ call_sid' = NoSid
  /\ caller_info_ready' = FALSE
  /\ inbuffer' = << >>
  /\ twilio_pc' = "loop"
  /\ ws_open' = TRUE
  /\ main_pc' = "wait_caller_info"
  /\ sts_open' = FALSE
  /\ sts_sent' = << >>
  /\ sender_pc' = "idle"
  /\ receiver_pc' = "idle"
  /\ streamsid' = None
  /\ twilio_out' = << >>
  /\ frame_count' = [k \in FrameKinds |-> 0]
  /\ bad_at' = -1
  /\ media_sizes' = {}
  /\ rx_bytes' = 0
  /\ agent_log' = << >>
  /\ digest' = NotCalled
  /\ UNCHANGED <<shutdown_event, api_key, dash_vars, serving, db, active_sessions, inactive_clients, broadcasts,
                 store_vars>>

\* dashboard_websocket_handler, message_type == 'human_guidance':
\* human_guidance_queue[data.get('session_id')] = {...}; the key is a str
\* of the dashboard's JSON.
dashboard_human_guidance(key) ==
  /\ <<"str", key>> \notin human_guidance_queue
  /\ human_guidance_queue' = human_guidance_queue \cup {<<"str", key>>}
  /\ UNCHANGED <<shutdown_event, api_key, dash_vars, serving, db, active_sessions, inactive_clients, broadcasts,
                 callers, sessions, messages, store_calls>>
  /\ UNCHANGED <<twilio_vars, main_vars, sts_vars>>

(***************************************************************************)
(* dashboard_connections and broadcast_to_dashboards.  Every await         *)
(* ws.send_str of the loop is a point at which dashboards connect and      *)
(* disconnect.                                                             *)
(***************************************************************************)
\* The WebSocketResponse objects of the dashboards.
Dashboards == {"ws1", "ws2", "ws3"}
\* What await ws.send_str(json.dumps(message)) does: it returns, or raises
\* ConnectionResetError, or raises another Exception.
SendOutcomes == {"ok", "ConnectionResetError", "Exception"}
everything_else == <<shutdown_event, api_key, serving, db, active_sessions, inactive_clients,
                     broadcasts, store_vars, twilio_vars, main_vars, sts_vars>>

\* dashboard_websocket_handler: dashboard_connections.add(ws), for a new
\* WebSocketResponse.
dashboard_connect(ws) ==
  /\ ws \notin dashboard_connections \cup dashboard_closed
  /\ ws \notin bc_start
  /\ dashboard_connections' = dashboard_connections \cup {ws}
  /\ bc_added' = IF bc_pc = "loop" THEN bc_added \cup {ws} ELSE bc_added
  /\ UNCHANGED <<dashboard_closed, bc_pc, bc_start, bc_todo, bc_sent, disconnected, bc_count>>
  /\ UNCHANGED everything_else

\* dashboard_websocket_handler, finally: dashboard_connections.discard(ws)
dashboard_disconnect(ws) ==
  /\ ws \in dashboard_connections \cup bc_start
  /\ ws \notin dashboard_closed
  /\ dashboard_connections' = dashboard_connections \ {ws}
  /\ dashboard_closed' = dashboard_closed \cup {ws}
  /\ UNCHANGED <<bc_pc, bc_start, bc_todo, bc_sent, disconnected, bc_count, bc_added>>
  /\ UNCHANGED everything_else

\* if not dashboard_connections: return;  disconnected = set();
\* for ws in dashboard_connections.copy():
broadcast_to_dashboards_begin(maxBroadcasts) ==
  /\ bc_pc = "idle"
  /\ bc_count < maxBroadcasts
  /\ bc_count' = bc_count + 1
  /\ bc_start' = dashboard_connections
  /\ bc_todo' = dashboard_connections
  /\ bc_sent' = {}
  /\ disconnected' = {}
  /\ bc_added' = {}
  /\ bc_pc' = IF dashboard_connections = {} THEN "idle" ELSE "loop"
  /\ UNCHANGED <<dashboard_connections, dashboard_closed>>
  /\ UNCHANGED everything_else

\* The except clauses of the loop body, which catch ConnectionResetError
\* only.
BroadcastCatchesResetOnly(outcome) == outcome = "ConnectionResetError"

\* except ConnectionResetError: ...  except Exception as e: ...
BroadcastCatches(outcome) == outcome \in {"ConnectionResetError", "Exception"}

\* try: await ws.send_str(json.dumps(message)), for the next socket of the
\* copy; a socket whose handler has returned is closed and the send raises.
broadcast_to_dashboards_send(ws, outcome) ==
  /\ bc_pc = "loop"
  /\ ws \in bc_todo
  /\ ws \in dashboard_closed => outcome # "ok"
  /\ bc_todo' = bc_todo \ {ws}
  /\ IF outcome = "ok"
     THEN bc_sent' = bc_sent \cup {ws} /\ UNCHANGED <<disconnected, bc_pc>>
     ELSE IF BroadcastCatches(outcome)
     THEN disconnected' = disconnected \cup {ws} /\ UNCHANGED <<bc_sent, bc_pc>>
     ELSE bc_pc' = "raised" /\ UNCHANGED <<bc_sent, disconnected>>
  /\ UNCHANGED <<dashboard_connections, dashboard_closed, bc_start, bc_count, bc_added>>
  /\ UNCHANGED everything_else

\* dashboard_connections.difference_update(disconnected); return ""
broadcast_to_dashboards_end ==
  /\ bc_pc = "loop"
  /\ bc_todo = {}
  /\ dashboard_connections' = dashboard_connections \ disconnected
  /\ bc_pc' = "idle"
  /\ UNCHANGED <<dashboard_closed, bc_start, bc_todo, bc_sent, disconnected, bc_count,
                 bc_added>>
  /\ UNCHANGED everything_else

(***************************************************************************)
(* The process: main, run_server and the shutdown signal.                  *)
(***************************************************************************)
\* main and run_server up to site.start(): a missing DEEPGRAM_API_KEY is
\* answered with a printed warning, initialize_database connects the store
\* or leaves db None, and the site starts accepting requests.
main ==
  /\ ~serving
  /\ ~shutdown_event
  /\ serving' = TRUE
  /\ db' \in BOOLEAN
  /\ UNCHANGED <<shutdown_event, api_key, dash_vars, active_sessions, inactive_clients,
                 broadcasts, store_vars>>
  /\ UNCHANGED <<twilio_vars, main_vars, sts_vars>>

\* The process-wide shutdown signal is given: shutdown_event.set().  The
\* program under src/ only creates and reads the event (its signal handler
\* ignores SIGTERM and raises KeyboardInterrupt on SIGINT); the step that
\* sets it is taken from the specification.
shutdown_event_set ==
  /\ serving
  /\ ~shutdown_event
  /\ shutdown_event' = TRUE
  /\ UNCHANGED <<api_key, dash_vars, serving, db, active_sessions, inactive_clients,
                 broadcasts, store_vars>>
  /\ UNCHANGED <<twilio_vars, main_vars, sts_vars>>

\* run_server returning without the tasks of the sessions being cancelled.
run_server_exit_leaving_tasks ==
  /\ serving
  /\ shutdown_event
  /\ serving' = FALSE
  /\ UNCHANGED <<shutdown_event, api_key, dash_vars, db, active_sessions, inactive_clients,
                 broadcasts, store_vars>>
  /\ UNCHANGED <<twilio_vars, main_vars, sts_vars>>

\* run_server: while not shutdown_event.is_set(): await asyncio.sleep(1).
\* When the event is set run_server returns and asyncio.run cancels every
\* task that is left, the handlers and their loops: CancelledError is no
\* Exception, so no except clause of the handler catches it and the
\* fallback block does not run; async with closes the agent connection.
run_server_exit ==
  /\ serving
  /\ shutdown_event
  /\ serving' = FALSE
  /\ twilio_pc' = "done"
  /\ main_pc' = "done"
  /\ sender_pc' = IF sender_pc = "idle" THEN "idle" ELSE "done"
  /\ receiver_pc' = IF receiver_pc = "idle" THEN "idle" ELSE "done"
  /\ ws_open' = FALSE
  /\ sts_open' = FALSE
  /\ UNCHANGED <<shutdown_event, api_key, dash_vars, db, active_sessions, inactive_clients,
                 broadcasts, store_vars>>
  /\ UNCHANGED <<audio_queue, streamsid_queue, caller_phone, call_sid,
                 caller_info_ready, inbuffer, frame_count, bad_at, media_sizes,
                 rx_bytes>>
  /\ UNCHANGED <<handler_locals, audio_taken, sts_sent, streamsid, twilio_out,
                 agent_log>>

(***************************************************************************)
(* Specifications.  The actions are the same in all of them; they differ   *)
(* in the inputs the environment may deliver and in the bounds.            *)
(***************************************************************************)
Telephony(sids, sizes, maxBytes, maxCtl) ==
  \/ \E sid \in sids, c \in CallSids : \E p \in StartParams(c) :
        twilio_receiver_start(sid, c, p, maxCtl)
  \/ \E n \in sizes : twilio_receiver_media(n, maxBytes)
  \/ twilio_receiver_stop(maxCtl)
  \/ twilio_receiver_malformed(maxCtl)
  \/ \E k \in SkippedKinds : twilio_receiver_skipped(k, maxCtl)
  \/ \E k \in {"close", "error"} : twilio_receiver_close(k)

Handler ==
  \/ websocket_handler_wait
  \/ \E ok \in BOOLEAN : websocket_handler_load_context(ok)
  \/ \E ok \in BOOLEAN : websocket_handler_connect(ok)
  \/ websocket_handler_fallback

Sender == sts_sender_check \/ sts_sender_send \/ sts_sender_timeout

Receiver(kinds, maxAgentMsgs) ==
  \/ sts_receiver_streamsid
  \/ \E k \in kinds : sts_receiver_message(k, maxAgentMsgs)
  \/ sts_receiver_closed

Webhook(maxWebhooks) ==
  \E c \in CallSids : voice_webhook_handler(c, "+61400000001", maxWebhooks)

\* Spec: the whole session.
PayloadSizes == {160}

Next ==
  \/ Webhook(MaxWebhooks)
  \/ \E sid \in {"MZ1"}, c \in CallSids : \E p \in StartParams(c) :
        twilio_receiver_start(sid, c, p, MaxCtl)
  \/ \E n \in PayloadSizes : twilio_receiver_media(n, MaxBytes)
  \/ twilio_receiver_stop(MaxCtl)
  \/ \E k \in {"close", "error"} : twilio_receiver_close(k)
  \/ Handler
  \/ Sender
  \/ Receiver({"audio", "UserStartedSpeaking"}, MaxAgentMsgs)
  \/ agent_close

\* The store is connected.
InitSession == Init /\ db

Spec == InitSession /\ [][Next]_vars

\* FairSpec: Spec with the scheduling of the asyncio event loop, which runs
\* every coroutine that is ready: the handler body, sts_sender and the steps
\* of sts_receiver that wait for no message.  Nothing is assumed of what
\* the telephony socket delivers; the agent endpoint is assumed to close
\* its connection eventually.
FairSpec ==
  /\ InitSession
  /\ [][Next]_vars
  /\ WF_vars(Handler)
  /\ WF_vars(Sender)
  /\ WF_vars(sts_receiver_streamsid \/ sts_receiver_closed)
  /\ WF_vars(agent_close)

\* SpecAgent: every kind of agent message, two stream ids, one payload
\* large enough to be forwarded to the agent at once.
NextAgent ==
  \/ \E sid \in StreamSids : \E p \in StartParams(LongSid) :
        twilio_receiver_start(sid, LongSid, p, AgentMaxCtl)
  \/ twilio_receiver_media(BUFFER_SIZE, AgentMaxBytes)
  \/ \E k \in {"close", "error"} : twilio_receiver_close(k)
  \/ Handler
  \/ Sender
  \/ Receiver(AgentKinds, AgentMaxMsgs)
  \/ \E stored \in BOOLEAN : sts_receiver_add_message(stored)
  \/ agent_close

SpecAgent == InitSession /\ [][NextAgent]_vars

\* SpecBuf: the telephony loop alone, with payloads around BUFFER_SIZE.
BufPayloadSizes == {160, 3199, 3200, 3300}

NextBuf == Telephony({"MZ1"}, BufPayloadSizes, BufMaxBytes, BufMaxCtl)

SpecBuf == Init /\ [][NextBuf]_vars


\* SpecStore: consecutive calls over the store: the steps of a call that
\* reach the store (context loading, the turns the agent reports) and the
\* end of the call on the telephony side, without audio.  The store starts
\* without rows or with one ended session of the known caller whose
\* transcript holds one turn of the caller.
SaidSomething ==
  <<"I", " ", "l", "o", "s", "t", " ", "m", "y", " ", "k", "e", "y", "s", " ",
    "t", "o", "d", "a", "y">>

PriorSession ==
  [session_id |-> "S1", caller_phone |-> "+61400000001", twilio_call_sid |-> <<0, 0>>,
   session_number |-> 1, ended |-> TRUE,
   full_transcript |-> JsonDumps(PyList(<< Turn("user", PyStr(SaidSomething)) >>))]

InitStore ==
  /\ InitGlobals
  /\ db
  /\ InitCall
  /\ messages = << >>
  /\ \/ sessions = << >> /\ callers = [p \in Phones |-> 0]
     \/ /\ sessions = << PriorSession >>
        /\ callers = [p \in Phones |-> IF p = PriorSession.caller_phone THEN 1 ELSE 0]

NextStore ==
  \/ \E c \in CallSids, phone \in Phones :
        twilio_receiver_start("MZ1", c, [caller |-> phone, callsid |-> c], StoreMaxCtl)
  \/ \E k \in {"close", "error"} : twilio_receiver_close(k)
  \/ websocket_handler_wait
  \/ \E ok \in BOOLEAN : websocket_handler_load_context(ok)
  \/ \E ok \in BOOLEAN : websocket_handler_connect(ok)
  \/ sts_receiver_streamsid
  \/ sts_receiver_message("ConversationText", StoreMaxMsgs)
  \/ \E stored \in BOOLEAN : sts_receiver_add_message(stored)
  \/ websocket_handler_next_call(MaxCalls)
  \/ dashboard_human_guidance("S1")

SpecStore == InitStore /\ [][NextStore]_vars

\* SpecDigest: one call of the known caller over a store that holds up to
\* MaxHistory ended sessions, the transcript of each drawn from Transcripts.
Said(k) == Append(SaidSomething, k)

SevenTurns ==
  << Turn("user", PyStr(Said("1"))), Turn("user", PyStr(Said("2"))),
     Turn("user", PyStr(Said("3"))), Turn("user", PyStr(Said("4"))),
     Turn("user", PyStr(Said("5"))), Turn("user", PyStr(Said("6"))),
     Turn("user", PyStr(Said("7"))) >>

\* Stored values of full_transcript: NULL; a str that is not JSON; the JSON
\* text of a number, of an object without and with "messages" and of lists
\* of turns (content missing, speaker missing or null, an opener, a turn of
\* the agent, a short turn padded with blanks; content null); a list with
\* items that are not dicts.
MemoryClaim ==
  <<"I", " ", "r", "e", "m", "e", "m", "b", "e", "r", " ", "y", "o", "u", "r", " ",
    "k", "e", "y", "s">>

Transcripts ==
  << PyNone,
     PyStr(SaidSomething),
     JsonDumps(PyInt(<<"5">>)),
     JsonDumps(PyObject(<< <<"t", "o", "p", "i", "c">>, <<"m", "o", "o", "d">> >>, Missing)),
     JsonDumps(PyObject(<< <<"m", "e", "s", "s", "a", "g", "e", "s">> >>, PyList(SevenTurns \o << Turn("ai", PyStr(MemoryClaim)) >>))),
     PyList(<< PyInt(<<"5">>), PyStr(Said("8")), PyNone >>),
     JsonDumps(PyList(<< Turn("user", Missing), Turn("", PyStr(SaidSomething)),
                         Turn("None", PyStr(SaidSomething)),
                         Turn("user", PyStr(<<"H", "i", "!">> \o SaidSomething)),
                         Turn("ai", PyStr(SaidSomething)),
                         Turn("user", PyStr(<<" ", "1", "2", "3", "4", "5", "6", "7", "8",
                                              "9", "0", "1", "2", "3", "4", "5", " ">>)) >>)),
     JsonDumps(PyList(<< Turn("user", PyStr(SaidSomething)), Turn("user", PyNone) >>)) >>

Histories == UNION {[1..n -> DOMAIN Transcripts] : n \in 0..MaxHistory}

StoredSession(i, transcript) ==
  [session_id |-> UUIDs[i], caller_phone |-> "+61400000001", twilio_call_sid |-> <<0, i>>,
   session_number |-> i, ended |-> TRUE, full_transcript |-> transcript]

InitDigest ==
  /\ InitGlobals
  /\ db
  /\ InitCall
  /\ messages = << >>
  /\ \E h \in Histories :
        /\ sessions = [i \in DOMAIN h |-> StoredSession(i, Transcripts[h[i]])]
        /\ callers = [p \in Phones |-> IF p = "+61400000001" THEN Len(h) ELSE 0]

NextDigest ==
  \/ twilio_receiver_start("MZ1", LongSid,
                           [caller |-> "+61400000001", callsid |-> LongSid], DigestMaxCtl)
  \/ websocket_handler_wait
  \/ \E ok \in BOOLEAN : websocket_handler_load_context(ok)

SpecDigest == InitDigest /\ [][NextDigest]_vars

\* SpecStream: one call whose telephony socket delivers several start
\* frames with different stream ids while the agent speaks.
NextStream ==
  \/ \E sid \in StreamSids :
        twilio_receiver_start(sid, LongSid,
                              [caller |-> "+61400000001", callsid |-> LongSid], StreamMaxCtl)
  \/ twilio_receiver_media(BUFFER_SIZE, StreamMaxBytes)
  \/ \E k \in {"close", "error"} : twilio_receiver_close(k)
  \/ Handler
  \/ Sender
  \/ Receiver({"audio", "UserStartedSpeaking"}, StreamMaxMsgs)
  \/ agent_close

SpecStream == InitSession /\ [][NextStream]_vars

\* SpecText: one call of a known or unknown caller, with the store
\* connected or not, in which the agent reports turns and speaks.
NextText ==
  \/ \E phone \in Phones :
        twilio_receiver_start("MZ1", LongSid,
                              [caller |-> phone, callsid |-> LongSid], TextMaxCtl)
  \/ twilio_receiver_media(BUFFER_SIZE, TextMaxBytes)
  \/ \E k \in {"close", "error"} : twilio_receiver_close(k)
  \/ Handler
  \/ Sender
  \/ Receiver(TextKinds \cup {"audio"}, TextMaxMsgs)
  \/ \E stored \in BOOLEAN : sts_receiver_add_message(stored)
  \/ agent_close

SpecText == Init /\ [][NextText]_vars

\* SpecSessions: one media-stream socket of either call, while the
\* webhooks of two calls create their entries of active_sessions.
NextSessions ==
  \/ Webhook(SessMaxWebhooks)
  \/ \E c \in CallSids :
        twilio_receiver_start("MZ1", c, [caller |-> "+61400000001", callsid |-> c],
                              SessMaxCtl)
  \/ twilio_receiver_media(160, SessMaxBytes)
  \/ twilio_receiver_stop(SessMaxCtl)
  \/ \E k \in {"close", "error"} : twilio_receiver_close(k)
  \/ Handler
  \/ Sender
  \/ Receiver({"audio"}, SessMaxMsgs)
  \/ agent_close

SpecSessions == InitSession /\ [][NextSessions]_vars

\* SpecDash: dashboards connecting and disconnecting while messages are
\* broadcast to them, one broadcast at a time.
NextDash ==
  \/ \E ws \in Dashboards : dashboard_connect(ws)
  \/ \E ws \in Dashboards : dashboard_disconnect(ws)
  \/ broadcast_to_dashboards_begin(DashMaxBroadcasts)
  \/ \E ws \in Dashboards, outcome \in SendOutcomes : broadcast_to_dashboards_send(ws, outcome)
  \/ broadcast_to_dashboards_end

SpecDash == InitSession /\ [][NextDash]_vars

\* SpecLifecycle: the process from the call of main, with or without the
\* agent credential in its environment, to its shutdown; requests and
\* sockets are served while the site is up.
InitLifecycle ==
  /\ InitModule
  /\ api_key \in BOOLEAN
  /\ serving = FALSE
  /\ db = FALSE
  /\ InitCall
  /\ EmptyStore

NextLifecycle ==
  \/ main
  \/ shutdown_event_set
  \/ run_server_exit
  \/ serving /\ Webhook(LifeMaxWebhooks)
  \/ serving /\ twilio_receiver_start("MZ1", LongSid,
                                      [caller |-> "+61400000001", callsid |-> LongSid],
                                      LifeMaxCtl)
  \/ serving /\ twilio_receiver_media(BUFFER_SIZE, LifeMaxBytes)
  \/ serving /\ \E k \in {"close", "error"} : twilio_receiver_close(k)
  \/ serving /\ Handler
  \/ serving /\ Sender
  \/ serving /\ Receiver({"audio"}, LifeMaxMsgs)
  \/ serving /\ agent_close

SpecLifecycle == InitLifecycle /\ [][NextLifecycle]_vars

\* FairLifecycle: SpecLifecycle with the scheduling of the event loop, as
\* in FairSpec, and run_server waking up every second.
FairLifecycle ==
  /\ InitLifecycle
  /\ [][NextLifecycle]_vars
  /\ WF_vars(main)
  /\ WF_vars(run_server_exit)
  /\ WF_vars(serving /\ Handler)
  /\ WF_vars(serving /\ Sender)
  /\ WF_vars(serving /\ (sts_receiver_streamsid \/ sts_receiver_closed))


(***************************************************************************)
(* Claims.                                                                 *)
(***************************************************************************)
\* The session's telephony loop has ended.
TwilioEnded == twilio_pc = "done"

\* C1: once the session has ended, the chunks put on audio_queue,
\* concatenated in emission order, are exactly the decoded media payloads
\* concatenated in arrival order.
C1_ChunksArePayloads == TwilioEnded => Join(audio_queue) = Arrived(rx_bytes)

\* C7: a telephony text frame that is not valid JSON changes neither the
\* session state nor the audio buffer and leaves the telephony loop
\* reading, so that the frames after it are handled as if it had not come.
C7_MalformedDropped ==
  [][frame_count'["badjson"] # frame_count["badjson"] =>
       /\ twilio_pc' = "loop"
       /\ UNCHANGED <<inbuffer, audio_queue, rx_bytes, streamsid_queue,
                      caller_phone, call_sid, caller_info_ready, ws_open>>
       /\ UNCHANGED <<globals, main_vars, sts_vars>>]_vars

\* A media frame was buffered after a frame that is not valid JSON.
C7_Witness ==
  /\ bad_at >= 0
  /\ rx_bytes > bad_at
  /\ twilio_pc = "loop"
  /\ inbuffer # << >>
  /\ inbuffer[Len(inbuffer)][2] = rx_bytes

\* Every media frame so far carried 160 bytes and no stop frame came.
Only160 == media_sizes \subseteq {160} /\ frame_count["stop"] = 0

\* C8: from an empty buffer and without a stop frame, after n media frames
\* of 160 bytes floor(n/20) chunks of 3200 bytes have been emitted and
\* (n mod 20)*160 bytes are buffered.
C8_Chunks160 ==
  Only160 =>
    LET n == frame_count["media"]
    IN /\ Len(audio_queue) = n \div 20
       /\ \A i \in DOMAIN audio_queue : BytesLen(audio_queue[i]) = 3200
       /\ BytesLen(inbuffer) = (n % 20) * 160

\* 25 frames of 160 bytes: one chunk of 3200 bytes, 800 bytes buffered.
C8_Witness ==
  /\ Only160
  /\ frame_count["media"] = 25
  /\ Len(audio_queue) = 1
  /\ BytesLen(audio_queue[1]) = 3200
  /\ BytesLen(inbuffer) = 800


\* The number of times the finalization block has run.
NumFinalized == Len(inactive_clients)

\* asyncio.gather has returned and the handler has run to its end.
HandlerReturned == main_pc = "done" /\ receiver_pc = "done"

\* C2: for every interleaving of termination triggers, session
\* finalization (append to inactive_clients, removal from active_sessions,
\* call_ended) runs exactly once.
C2_FinalizedExactlyOnce ==
  /\ NumFinalized <= 1
  /\ HandlerReturned => NumFinalized = 1

\* call_ended was published for call id c and c is not in active_sessions.
Finalized(c) ==
  /\ \E i \in DOMAIN broadcasts : broadcasts[i] = [type |-> "call_ended", call_sid |-> c]
  /\ ~Has(active_sessions, c)

\* C4: the wait for caller identity is bounded: when the telephony socket
\* delivers no caller identity (here: its loop has ended), the handler
\* eventually stops waiting.
C4_WaitBounded == TwilioEnded ~> (main_pc # "wait_caller_info")

\* C5: no Media or Clear frame is sent, and no agent message is consumed,
\* before the stream id of a start frame has been obtained.
C5_NoFrameBeforeStreamSid ==
  /\ agent_log # << >> => (frame_count["start"] >= 1 /\ streamsid \in StreamSids)
  /\ \A i \in DOMAIN twilio_out : twilio_out[i].streamSid \in StreamSids

\* A frame was sent to the telephony socket.
C5_Witness == twilio_out # << >> /\ streamsid_queue = << >>

\* The agent connection has been opened.
AgentOpened == sts_sent # << >>

C9_CloseFinalizes ==
  (TwilioEnded /\ frame_count["stop"] = 0 /\ main_pc = "gather")
    ~> Finalized(call_sid)

\* C10: if one of the three loops has exited, the other two eventually
\* exit and the handler returns.
C10_TeardownPropagates ==
  (main_pc = "gather" /\ (twilio_pc = "done" \/ sender_pc = "done" \/ receiver_pc = "done"))
    ~> (main_pc = "done" /\ twilio_pc = "done" /\ sender_pc = "done" /\ receiver_pc = "done")


\* The frames sent to the telephony socket for agent message i.
FramesOf(i) == {j \in DOMAIN twilio_out : twilio_out[j].src = i}

\* Agent message i produced exactly one Clear frame, addressed to the
\* session's stream id and sent before every frame produced from a later
\* agent message.
ClearSent(i) ==
  /\ \E j \in DOMAIN twilio_out :
        /\ FramesOf(i) = {j}
        /\ twilio_out[j].event = "clear"
        /\ twilio_out[j].streamSid = streamsid
        /\ \A k \in DOMAIN twilio_out : twilio_out[k].src > i => k > j
  /\ streamsid \in StreamSids

\* C3 as stated: every UserStartedSpeaking message received by sts_receiver
\* results in exactly one Clear frame addressed to the session's stream
\* id, sent before any Media frame produced from later agent messages.
C3_ClearForEveryUSS ==
  \A i \in DOMAIN agent_log : agent_log[i] = "UserStartedSpeaking" => ClearSent(i)

\* C3 as amended: the same while the telephony socket accepts the frame;
\* when the telephony socket is closed the send raises, no Clear frame is
\* sent, sts_receiver ends and no frame of a later agent message is sent.
C3_ClearWhileOpen ==
  \A i \in DOMAIN agent_log :
    agent_log[i] = "UserStartedSpeaking" =>
      \/ ClearSent(i)
      \/ /\ ~ws_open
         /\ receiver_pc = "done"
         /\ i = Len(agent_log)
         /\ \A k \in DOMAIN twilio_out : twilio_out[k].src < i

\* A Clear frame was sent for a UserStartedSpeaking message and a Media
\* frame for an audio message received after it.
C3_Witness ==
  \E i, k \in DOMAIN agent_log :
    /\ i < k
    /\ agent_log[i] = "UserStartedSpeaking"
    /\ agent_log[k] = "audio"
    /\ ClearSent(i)
    /\ \E m \in FramesOf(k) : twilio_out[m].event = "media"

\* The connection to the agent endpoint failed: the handler has returned
\* without having sent anything to the agent.
ConnectFailed == main_pc = "done" /\ sts_sent = << >>

\* C11: when connecting to the agent endpoint fails the session ends: once
\* the telephony loop has stopped, the call is removed from active_sessions
\* and finalized (call_ended is published).
C11_ConnectFailureEnds == (ConnectFailed /\ TwilioEnded) ~> Finalized(call_sid)

\* C12: when the handler of a session that obtained a store session id has
\* returned, the terminal write (end_session) has been requested from the
\* store.
C12_TerminalWrite ==
  (main_pc = "done" /\ session_id # None) => <<call_no, "end_session">> \in store_calls

\* The session of row i of table sessions has recorded turns.
Recorded(i) ==
  \E k \in DOMAIN messages : messages[k].session_id = sessions[i].session_id

\* C13: when a call has obtained its session and context from the store,
\* every earlier session of the same caller in which turns were recorded
\* is in the recent history returned by get_or_create_caller, with a
\* transcript.
C13_HistoryRecalled ==
  session_id # None =>
    \A i \in DOMAIN sessions :
      (/\ sessions[i].caller_phone = identity
       /\ sessions[i].session_id # session_id
       /\ Recorded(i))
      => \E j \in DOMAIN caller_context :
            /\ caller_context[j].session_id = sessions[i].session_id
            /\ caller_context[j].full_transcript.t # "none"

\* The caller of this call has no session in the store but this one.
ZeroPrior ==
  \A i \in DOMAIN sessions :
    sessions[i].caller_phone = identity => sessions[i].session_id = session_id

\* C14: for a known caller with zero prior sessions the digest is empty
\* and the prompt of the Settings message is the base personality alone.
C14_NoHistoryBasePrompt ==
  (sts_sent # << >> /\ identity # "unknown" /\ ZeroPrior) =>
    /\ digest.parts = << >>
    /\ sts_sent[1].prompt = BasePrompt

\* A known caller without earlier sessions got a session, guidance was
\* queued under the text of a session id, and the agent was configured.
C14_Witness ==
  /\ sts_sent # << >>
  /\ identity = "+61400000001"
  /\ session_id # None
  /\ ZeroPrior
  /\ human_guidance_queue # {}

\* C15: when the caller identity is "unknown" no method of the store is
\* called for the call and the prompt of the Settings message is the base
\* personality alone.
C15_UnknownSkipsStore ==
  identity = "unknown" =>
    /\ \A m \in {"get_or_create_caller", "add_message", "end_session"} :
          <<call_no, m>> \notin store_calls
    /\ sts_sent # << >> => sts_sent[1].prompt = BasePrompt

\* An unknown caller's call in which the agent sent a ConversationText.
C15_Witness ==
  /\ identity = "unknown"
  /\ sts_sent # << >>
  /\ agent_log # << >>

\* C16: the digest holds entries for at most 3 sessions and at most 6
\* turns of the caller for each of them.
C16_DigestBounded ==
  (digest.called /\ ~digest.raised) =>
    /\ Len(digest.parts) <= 3
    /\ \A i \in DOMAIN digest.parts : Len(digest.parts[i].exchanges) <= 6

\* The store held more than 3 sessions, one of them with more than 6 turns
\* that count, and the digest holds 3 sessions and 6 turns of one of them.
C16_Witness ==
  /\ digest.called /\ ~digest.raised
  /\ Len(caller_context) > 3
  /\ Len(digest.parts) = 3
  /\ \E i \in DOMAIN digest.parts :
        /\ Len(digest.parts[i].exchanges) = 6
        /\ digest.parts[i].exchanges[6] = Said("7")

\* C17: format_actual_conversation_context never raises.
C17_DigestNeverRaises == digest.called => ~digest.raised

\* C18: the stream id sts_receiver took never changes, and every Media and
\* Clear frame sent to the telephony socket is addressed to it.
C18_StreamSidFixed ==
  /\ [](\A i \in DOMAIN twilio_out : twilio_out[i].streamSid = streamsid)
  /\ [][streamsid' = streamsid \/ streamsid \notin StreamSids]_vars

\* A later start frame carried another stream id, and frames were sent
\* after it arrived.
C18_Witness ==
  /\ frame_count["start"] >= 2
  /\ streamsid \in StreamSids
  /\ streamsid_queue # << >>
  /\ Head(streamsid_queue) # streamsid
  /\ Len(twilio_out) >= 2

\* The call was finalized: call_ended was published for it.
Ended(c) ==
  \E i \in DOMAIN broadcasts : broadcasts[i] = [type |-> "call_ended", call_sid |-> c]

\* The state of the session of call c: 0 not seen, 1 registered
\* (connecting), 2 active, 3 ended.
SessionRank(c) ==
  IF Has(active_sessions, c)
  THEN IF active_sessions[c].status = "active" THEN 2 ELSE 1
  ELSE IF Ended(c) THEN 3 ELSE 0

\* C19: the state of a session never moves back.
C19_StateMonotone ==
  [][\A c \in CallSids : SessionRank(c)' >= SessionRank(c)]_vars

\* C20: between two telephony frames inbuffer holds at most BUFFER_SIZE
\* bytes.
C20_BufferBounded == BytesLen(inbuffer) <= BUFFER_SIZE

\* A payload larger than BUFFER_SIZE was received and bytes are waiting in
\* inbuffer.
C20_Witness ==
  /\ \E n \in media_sizes : n > BUFFER_SIZE
  /\ audio_queue # << >>
  /\ BytesLen(inbuffer) > 0

\* C21: the chunks are sent to the agent in the order in which they were
\* put on audio_queue, and the Media frames are sent to the telephony
\* socket in the order in which the agent's binary messages were received.
C21_Fifo ==
  /\ \A i \in 2..Len(sts_sent) : sts_sent[i].bytes = audio_queue[i - 1]
  /\ \A i \in DOMAIN twilio_out :
        twilio_out[i].event = "media" => agent_log[twilio_out[i].src] = "audio"
  /\ \A i, j \in DOMAIN twilio_out : i < j => twilio_out[i].src < twilio_out[j].src

\* Two chunks were forwarded to the agent and two binary messages of the
\* agent were forwarded to the telephony socket.
C21_Witness ==
  /\ Len(sts_sent) >= 3
  /\ Len(twilio_out) >= 2
  /\ twilio_out[1].event = "media" /\ twilio_out[2].event = "media"

\* db.add_message, awaited by sts_receiver for a ConversationText message,
\* raises.
AddMessageFails ==
  /\ receiver_pc = "add_message"
  /\ receiver_pc' # receiver_pc
  /\ <<call_no, "add_message">> \in store_calls'
  /\ messages' = messages

\* C22: when db.add_message raises while a turn is recorded, sts_receiver
\* stays in its loop, where it reads the agent messages that follow.
C22_StoreFailureSwallowed ==
  [][AddMessageFails /\ session_id # None /\ db => receiver_pc' = "loop"]_vars

\* No turn could be stored, and the binary message and the barge-in that
\* came after it were forwarded to the telephony socket.
C22_Witness ==
  /\ agent_log = <<"ConversationText", "audio", "UserStartedSpeaking">>
  /\ <<call_no, "add_message">> \in store_calls
  /\ messages = << >>
  /\ Len(twilio_out) = 2
  /\ twilio_out[1].src = 2 /\ twilio_out[2].src = 3

\* The context of the call was loaded without the store giving a session:
\* there is no database connection, or get_or_create_caller raised.
StoreFailed ==
  /\ identity \notin {None, "unknown"}
  /\ ~db \/ (<<call_no, "get_or_create_caller">> \in store_calls /\ session_id = None)

\* C23: when the store is not connected or get_or_create_caller raises,
\* the handler goes on to connect and configure the agent, the prompt of
\* the Settings message is the base personality alone, and nothing is
\* recorded for the call.
C23_StoreFailureProceeds ==
  /\ [][(main_pc = "load_context" /\ main_pc' # main_pc /\ StoreFailed')
          => (main_pc' = "connect" /\ ai_prompt' = BasePrompt)]_vars
  /\ [](StoreFailed =>
          /\ sts_sent # << >> => sts_sent[1].prompt = BasePrompt
          /\ <<call_no, "add_message">> \notin store_calls
          /\ messages = << >>)

\* Without a database connection the call of a known caller was connected
\* with the base personality, audio went both ways and the turn the agent
\* reported was not recorded.
C23_Witness ==
  /\ ~db
  /\ StoreFailed
  /\ Len(sts_sent) >= 2
  /\ sts_sent[1].prompt = BasePrompt
  /\ agent_log = <<"ConversationText", "audio">>
  /\ Len(twilio_out) = 1

\* The ConversationText messages sts_receiver has read in this call.
TextsReceived == {i \in DOMAIN agent_log : agent_log[i] \in TextKinds}
\* The transcript_update events handed to broadcast_to_dashboards.
TranscriptUpdates == {i \in DOMAIN broadcasts : broadcasts[i].type = "transcript_update"}

\* C30: every ConversationText message with a role and a content that
\* sts_receiver reads is published as a transcript_update event, whoever
\* the caller is and whether or not the store is connected.
C30_TranscriptPublished == Cardinality(TranscriptUpdates) = Cardinality(TextsReceived)

\* C29: on the agent connection the first message sent is the Settings
\* message, it is the only one, and audio is sent only after it, when the
\* start frame has given the caller and the handler has loaded the context.
C29_SettingsFirst ==
  /\ (sts_open \/ sts_sent # << >>) =>
        /\ sts_sent # << >>
        /\ sts_sent[1].type = "Settings"
        /\ caller_info_ready
        /\ identity # None
  /\ \A i \in 2..Len(sts_sent) : sts_sent[i].type = "audio"

\* Two chunks followed the Settings message on the agent connection.
C29_Witness ==
  /\ Len(sts_sent) = 3
  /\ sts_sent[1].type = "Settings"
  /\ sts_sent[3].type = "audio"

\* C27: whatever the payload sizes, before a stop frame every chunk put on
\* audio_queue has exactly BUFFER_SIZE bytes, and inbuffer holds the bytes
\* received after the emitted ones, fewer than BUFFER_SIZE.
C27_ExactChunks ==
  frame_count["stop"] = 0 =>
    /\ \A i \in DOMAIN audio_queue : BytesLen(audio_queue[i]) = BUFFER_SIZE
    /\ BytesLen(inbuffer) < BUFFER_SIZE
    /\ Concat(Join(audio_queue), inbuffer) = Arrived(rx_bytes)

\* The step in which the session ends on the telephony side: a stop frame
\* is read, or twilio_receiver leaves its loop (socket closed, socket
\* error, shutdown).
SessionEnds ==
  \/ frame_count'["stop"] # frame_count["stop"]
  \/ twilio_pc = "loop" /\ twilio_pc' = "done"

\* C28: when the session ends with bytes in inbuffer, the step that ends
\* it puts them on audio_queue as one final chunk and leaves inbuffer
\* empty.
C28_RemainderFlushedOnce ==
  [][SessionEnds /\ inbuffer # << >> =>
        /\ audio_queue' = Append(audio_queue, inbuffer)
        /\ inbuffer' = << >>]_vars

\* A request or a frame has been accepted: a webhook request was answered
\* or a frame was read from a telephony socket.
Accepted == NumWebhooks > 0 \/ \E k \in FrameKinds : frame_count[k] > 0

\* C24: when DEEPGRAM_API_KEY is missing at startup the process does not
\* start serving: no webhook request and no telephony socket is accepted.
C24_NoCredentialNoService == ~api_key => (~serving /\ ~Accepted)

\* None of the session's three loops is running and the handler, which
\* starts two of them, has ended.
LoopsExited ==
  /\ twilio_pc = "done"
  /\ sender_pc \notin {"check", "get"}
  /\ receiver_pc \notin {"wait_streamsid", "loop", "add_message"}
  /\ main_pc = "done"

\* C25: once shutdown_event is set, twilio_receiver, sts_sender and
\* sts_receiver eventually exit, whether or not another message arrives on
\* the telephony socket or the agent connection.
C25_ShutdownEndsLoops == shutdown_event ~> LoopsExited

\* The signal was given while the three loops were running and no frame
\* but the start frame and no agent message ever arrived: the loops have
\* ended.
C25_Witness ==
  /\ shutdown_event
  /\ LoopsExited
  /\ sender_pc = "done" /\ receiver_pc = "done"
  /\ frame_count["start"] = 1 /\ CtlCount = 1 /\ frame_count["media"] = 0
  /\ agent_log = << >>

\* C26: after shutdown_event is set no step creates an entry of
\* active_sessions, and no agent connection is opened for a telephony
\* socket whose start frame had not been handled.
C26_NoSessionAfterShutdown ==
  [][shutdown_event =>
       /\ \A c \in CallSids :
             Has(active_sessions', c) => active_sessions'[c] = active_sessions[c]
       /\ ~caller_info_ready => ~sts_open']_vars

\* This system's speaker vocabulary.
Speakers == {"user", "ai"}

\* C31: whatever the role of a ConversationText message, the speaker
\* passed to add_message and the role published in transcript_update are
\* 'user' or 'ai'.
C31_SpeakerVocabulary ==
  /\ \A c \in store_calls : Len(c) = 3 => c[3] \in Speakers
  /\ \A i \in DOMAIN broadcasts :
        broadcasts[i].type = "transcript_update" => broadcasts[i].role \in Speakers

\* C32: while db.add_message is pending for a turn, sts_receiver can take
\* the next binary or barge-in message of the agent and forward it to the
\* telephony socket.
C32_RecordingDoesNotBlock ==
  (receiver_pc = "add_message" /\ sts_open /\ Len(agent_log) < TextMaxMsgs) =>
    ENABLED sts_receiver_message("audio", TextMaxMsgs)

\* sts_receiver reads a textual message that is not valid JSON, or valid
\* JSON that is not an object with a type.
ReadsMalformed ==
  /\ agent_log' # agent_log
  /\ agent_log'[Len(agent_log')] \in {"badjson", "notype"}

\* C33: a malformed textual message of the agent is skipped: it produces
\* no frame and leaves sts_receiver in its loop, reading the messages that
\* follow.
C33_MalformedAgentSkipped ==
  [][ReadsMalformed => (receiver_pc' = "loop" /\ twilio_out' = twilio_out)]_vars

\* The qualifying turns of the session of caller_context with this number.
QualifyingTurns(num) ==
  LET j == CHOOSE j \in DOMAIN caller_context : caller_context[j].session_number = num
  IN KeyExchanges(Normalize(Items(DecodeTranscript(caller_context[j].full_transcript))))

\* C34: when the caller has more than 3 completed sessions, the sessions
\* of the digest are among the 3 most recent by start time, and the turns
\* kept of each are the last 6 qualifying turns in transcript order.
C34_MostRecentSessions ==
  (digest.called /\ ~digest.raised /\ Len(caller_context) > 3) =>
    \A i \in DOMAIN digest.parts :
      /\ \E j \in 1..3 : caller_context[j].session_number = digest.parts[i].session_num
      /\ LET kept == digest.parts[i].exchanges
             all == QualifyingTurns(digest.parts[i].session_num)
         IN /\ Len(kept) = IF Len(all) > 6 THEN 6 ELSE Len(all)
            /\ \A m \in DOMAIN kept : kept[m] = all[Len(all) - Len(kept) + m]

\* The turns, after normalization, of the session of caller_context with
\* this number.
TurnsOf(num) ==
  LET j == CHOOSE j \in DOMAIN caller_context : caller_context[j].session_number = num
  IN Normalize(Items(DecodeTranscript(caller_context[j].full_transcript)))

\* C35: every turn in the digest is the trimmed content of a turn of the
\* caller (speaker 'user') of that session, is longer than 15 characters
\* and starts with no stoplisted opener; a turn of the agent is never in
\* the digest.
C35_OnlyCallerTurns ==
  (digest.called /\ ~digest.raised) =>
    \A i \in DOMAIN digest.parts :
      \A m \in DOMAIN digest.parts[i].exchanges :
        LET e == digest.parts[i].exchanges[m]
            turns == TurnsOf(digest.parts[i].session_num)
        IN /\ Len(e) > 15
           /\ \A p \in Openers : ~StartsWith(e, p)
           /\ \E t \in DOMAIN turns :
                 /\ SpeakerOf(turns[t]) = "user"
                 /\ Strip(ContentOf(turns[t]).s) = e

\* The digest holds turns of a session whose transcript ends with a turn
\* of the agent that asserts a memory.
C35_Witness ==
  /\ digest.called /\ ~digest.raised
  /\ \E i \in DOMAIN digest.parts :
        LET turns == TurnsOf(digest.parts[i].session_num)
        IN /\ turns # << >>
           /\ SpeakerOf(turns[Len(turns)]) = "ai"
           /\ Strip(ContentOf(turns[Len(turns)]).s) = MemoryClaim
           /\ Len(digest.parts[i].exchanges) = 6

\* Guidance is pending for the session with this id: the dashboard
\* submitted it under the text of the id.
GuidancePending(queue, id) == \E k \in queue : k[2] = id

\* C36: guidance that is pending for a call when the handler builds the
\* instructions of its Settings message is included in them and removed
\* from human_guidance_queue.
C36_GuidanceApplied ==
  [][(main_pc = "load_context" /\ main_pc' = "connect" /\ session_id' # None
        /\ GuidancePending(human_guidance_queue, session_id'))
       => (ai_prompt'.guidance /\ ~GuidancePending(human_guidance_queue', session_id'))]_vars

HandlerStep == <<twilio_vars, main_vars, sts_vars>>' # <<twilio_vars, main_vars, sts_vars>>

C39_BroadcastIsolatesFailures ==
  [][/\ bc_pc' # "raised"
     /\ (bc_pc = "loop" /\ bc_pc' = "idle")
          => /\ bc_sent \cup disconnected = bc_start
             /\ bc_sent \cap disconnected = {}
             /\ dashboard_connections' \cap disconnected = {}
             /\ dashboard_connections \ disconnected \subseteq dashboard_connections']_vars

\* A broadcast has returned in which the send to one socket raised an
\* Exception, another socket was sent the message, and a socket that
\* connected during the broadcast is still subscribed.
C39_Witness ==
  /\ bc_pc = "idle"
  /\ bc_count > 0
  /\ disconnected # {}
  /\ bc_sent # {}
  /\ bc_added \cap dashboard_connections # {}
  /\ dashboard_connections \cap disconnected = {}
====
